---- MODULE Spec2Model ----
(***************************************************************************)
(* Document assembly pipeline of the AI document digitizer:                *)
(*   - reorderPagesByContent  (services/geminiService, in src/App.tsx)     *)
(*   - cropImageFromBlob      (src/utils/pdfUtils.ts)                      *)
(*   - processFolders and the user handlers of App (src/App.tsx)           *)
(*   - createDocx             (services/docxService, in src/App.tsx)       *)
(*   - analyzePage            (services/geminiService, in src/App.tsx)     *)
(* Pages are identified by their 0-based index in the input array          *)
(* (tempId); TLA+ sequences are 1-based, so pages[id] is pages[id + 1].    *)
(***************************************************************************)
EXTENDS Integers, Sequences, FiniteSets, TLC

VARIABLES
    rPc,        \* reorderPagesByContent: "call" | "done"
    rPages,     \* its argument: the detected page number of each page
    rResp,      \* what the ranking collaborator answers
    rOut,       \* the returned array, as input indices (tempIds)
    rPath,      \* which return statement produced rOut
    cPc,        \* cropImageFromBlob: "call" | "done"
    cImg,       \* the decoded source raster: [width, height, type]
    cBox,       \* its box argument
    cEnv,       \* what the browser does: "ok" | "loaderror" | "noctx" | "noblob"
    cRes,       \* how the returned promise settled
    apiKey,          \* process.env.API_KEY is set
    heap,            \* the FolderGroup objects, by object identity
    folders,         \* App state `folders`: an array of FolderGroup objects
    options,         \* App state `options`
    isProcessing,    \* App state `isProcessing`
    processingLog,   \* App state `processingLog`
    pc,              \* where the run of processFolders stands
    run,             \* the locals of the run of processFolders
    budget,          \* how many runs, ingestions and user edits have happened
    assembly,        \* PHASES 2-4 of one folder, with the content of its pages
    analyzer         \* one call of analyzePage and the push that follows it

rvars == <<rPc, rPages, rResp, rOut, rPath>>

cvars == <<cPc, cImg, cBox, cEnv, cRes>>

avars == <<apiKey, heap, folders, options, isProcessing, processingLog, pc, run, budget>>

vars == <<rPc, rPages, rResp, rOut, rPath, cPc, cImg, cBox, cEnv, cRes,
          apiKey, heap, folders, options, isProcessing, processingLog, pc, run, budget,
          assembly, analyzer>>

----------------------------------------------------------------------------
(* Bounds *)

MaxPages == 3
MaxHintLen == 3
MaxBoxLen == 4
MaxFiles == 2
MaxPdfPages == 2
MaxRuns == 2
MaxIngests == 1
MaxEdits == 1
MaxDocPages == 2
MaxDocBlocks == 3
MaxBlocks == 2

----------------------------------------------------------------------------
(* Data *)

\* PageAnalysisResult.pageNumber is optional: Absent stands for undefined/null.
Absent == 0

\* The number assumed for a page without a detected number in the fallback sort.
FallbackSentinel == 999

\* Detected page numbers (integers >= 1), among them the sentinel's own value
\* and one above it.
PageNumbers == {1, 2, 3, FallbackSentinel, FallbackSentinel + 1}

\* Sequences over S of length lo..hi.
SeqsOf(S, lo, hi) == UNION {[1..n -> S] : n \in lo..hi}

\* The set of elements of a sequence.
Range(s) == {s[k] : k \in 1..Len(s)}

\* The answers of the ranking collaborator for n pages:
\*   raise     generateContent rejects
\*   empty     response.text is undefined or ""
\*   badjson   JSON.parse throws
\*   nonarray  the JSON value is not an array (object, number, string, null)
\*   nonints   an array none of whose elements is an integer: pages[id] is
\*             undefined for each and includes(idx) finds no index
\*   array     an array of integers, in range or not
Responses(n) ==
    {[kind |-> k, ids |-> <<>>] : k \in {"raise", "empty", "badjson", "nonarray", "nonints"}}
    \cup {[kind |-> "array", ids |-> h] : h \in SeqsOf(-1..n, 0, MaxHintLen)}

----------------------------------------------------------------------------
(* cropImageFromBlob *)

\* The 0-1000 scale of a normalized bounding box.
BoxScale == 1000

\* const padding = 5
padding == 5

\* Pixel quantities are kept in thousandths of a pixel, so that
\* (xmin / 1000) * img.width is the integer xmin * img.width.
Milli == 1000

ImageSizes == {40, 1000}
ImageTypes == {"image/jpeg", "image/png"}
BoxCoords == {0, 2, 400, 495, 500, 1000}

Max(a, b) == IF a >= b THEN a ELSE b
Min(a, b) == IF a <= b THEN a ELSE b

\* const pixelX = (xmin / 1000) * img.width   (and pixelY)
pixelStart(lo, dim) == (lo * dim * Milli) \div BoxScale

\* const pixelW = ((xmax - xmin) / 1000) * img.width   (and pixelH)
pixelSize(lo, hi, dim) == ((hi - lo) * dim * Milli) \div BoxScale

\* const finalX = Math.max(0, pixelX - padding)   (and finalY)
finalStart(lo, dim) == Max(0, pixelStart(lo, dim) - padding * Milli)

\* const finalW = Math.min(img.width - finalX, pixelW + (padding * 2))   (and finalH)
finalSize(lo, hi, dim) ==
    Min(dim * Milli - finalStart(lo, dim), pixelSize(lo, hi, dim) + (padding * 2) * Milli)

\* The source rectangle handed to drawImage, in thousandths of a pixel.
\* const [ymin, xmin, ymax, xmax] = box
cropRect(box, img) ==
    LET finalX == finalStart(box[2], img.width)
        finalY == finalStart(box[1], img.height)
        finalW == finalSize(box[2], box[4], img.width)
        finalH == finalSize(box[1], box[3], img.height)
    IN  IF finalW <= 0 \/ finalH <= 0
        THEN [x |-> 0, y |-> 0, w |-> img.width * Milli, h |-> img.height * Milli]
        ELSE [x |-> finalX, y |-> finalY, w |-> finalW, h |-> finalH]

\* canvas.width = finalW: the bitmap has whole pixels.
canvasSize(rect) == [width |-> rect.w \div Milli, height |-> rect.h \div Milli]

NoRect == [x |-> 0, y |-> 0, w |-> 0, h |-> 0]

\* if (!box || box.length < 4) return sourceBlob;
CropReturnSource ==
    /\ cPc = "call"
    /\ Len(cBox) < 4
    /\ cRes' = [state |-> "resolved", type |-> cImg.type, passthrough |-> TRUE,
                rect |-> NoRect]
    /\ cPc' = "done"
    /\ UNCHANGED <<cImg, cBox, cEnv>>
    /\ UNCHANGED rvars
    /\ UNCHANGED <<avars, assembly, analyzer>>

\* img.onerror = () => reject("Image load failed")
CropLoadError ==
    /\ cPc = "call"
    /\ Len(cBox) >= 4
    /\ cEnv = "loaderror"
    /\ cRes' = [state |-> "rejected", type |-> "none", passthrough |-> FALSE,
                rect |-> NoRect]
    /\ cPc' = "done"
    /\ UNCHANGED <<cImg, cBox, cEnv>>
    /\ UNCHANGED rvars
    /\ UNCHANGED <<avars, assembly, analyzer>>

\* if (!ctx) return reject("No ctx")
CropNoContext ==
    /\ cPc = "call"
    /\ Len(cBox) >= 4
    /\ cEnv = "noctx"
    /\ cRes' = [state |-> "rejected", type |-> "none", passthrough |-> FALSE,
                rect |-> NoRect]
    /\ cPc' = "done"
    /\ UNCHANGED <<cImg, cBox, cEnv>>
    /\ UNCHANGED rvars
    /\ UNCHANGED <<avars, assembly, analyzer>>

\* img.onload: the rectangle is drawn and canvas.toBlob(..., 'image/png') calls
\* back, with null when the encoder fails or the bitmap has no pixels.
CropDraw ==
    /\ cPc = "call"
    /\ Len(cBox) >= 4
    /\ cEnv \in {"ok", "noblob"}
    /\ LET rect == cropRect(cBox, cImg)
           size == canvasSize(rect)
       IN  cRes' = IF cEnv = "noblob" \/ size.width = 0 \/ size.height = 0
                   THEN [state |-> "rejected", type |-> "none", passthrough |-> FALSE,
                         rect |-> rect]
                   ELSE [state |-> "resolved", type |-> "image/png",
                         passthrough |-> FALSE, rect |-> rect]
    /\ cPc' = "done"
    /\ UNCHANGED <<cImg, cBox, cEnv>>
    /\ UNCHANGED rvars
    /\ UNCHANGED <<avars, assembly, analyzer>>

CropIdle ==
    /\ cPc = "idle"
    /\ cImg = [width |-> 0, height |-> 0, type |-> "none"]
    /\ cBox = <<>>
    /\ cEnv = "ok"
    /\ cRes = [state |-> "pending", type |-> "none", passthrough |-> FALSE,
               rect |-> NoRect]

ReorderIdle ==
    /\ rPc = "idle"
    /\ rPages = <<>>
    /\ rResp = [kind |-> "raise", ids |-> <<>>]
    /\ rOut = <<>>
    /\ rPath = "none"

\* The locals of processFolders before a run.
NoRun == [updatedFolders |-> <<>>, i |-> 0, filesToProcess |-> <<>>, item |-> 0,
          itemResults |-> <<>>, docxPagesBuffer |-> <<>>, orderedPages |-> <<>>,
          summaryText |-> "null", generateSummary |-> FALSE]

\* One folder's PHASES 2-4 before they start; summaryText "null" is the
\* `let summaryText = null` of processFolders.
NoAssembly == [pc |-> "idle", docxPagesBuffer |-> <<>>, generateSummary |-> FALSE,
               orderedPages |-> <<>>, fullText |-> <<>>, summaryText |-> "null",
               summaryResponse |-> "none",
               i |-> 0, bIdx |-> 0, docChildren |-> <<>>, cropFailed |-> {},
               status |-> "pending", resultDocBlob |-> FALSE]

AssemblyIdle == assembly = NoAssembly

\* analyzePage before it is called.
NoCall == [pc |-> "idle", file |-> "none",
           response |-> [kind |-> "raise", blocks |-> <<>>, pageNumber |-> 0],
           result |-> [blocks |-> <<>>, pageNumber |-> 0],
           docxPagesBuffer |-> <<>>]

AnalyzerIdle == analyzer = NoCall

\* const [folders, setFolders] = useState([]) and the other useState calls of App.
AppIdle ==
    /\ apiKey = TRUE
    /\ heap = <<>>
    /\ folders = <<>>
    /\ options = [generateSummary |-> TRUE]
    /\ isProcessing = FALSE
    /\ processingLog = <<>>
    /\ pc = "idle"
    /\ run = NoRun
    /\ budget = [runs |-> 0, ingests |-> 0, edits |-> 0]

InitCrop ==
    /\ cPc = "call"
    /\ cImg \in [width : ImageSizes, height : ImageSizes, type : ImageTypes]
    /\ cBox \in SeqsOf(BoxCoords, 0, MaxBoxLen)
    /\ cEnv \in {"ok", "loaderror", "noctx", "noblob"}
    /\ cRes = [state |-> "pending", type |-> "none", passthrough |-> FALSE,
               rect |-> NoRect]
    /\ ReorderIdle
    /\ AppIdle
    /\ AssemblyIdle
    /\ AnalyzerIdle

NextCrop ==
    \/ CropReturnSource
    \/ CropLoadError
    \/ CropNoContext
    \/ CropDraw

SpecCrop == InitCrop /\ [][NextCrop]_vars

----------------------------------------------------------------------------
(* reorderPagesByContent *)

\* (a.analysis.pageNumber || 999)
sortKey(pageNumber) == IF pageNumber = Absent THEN FallbackSentinel ELSE pageNumber

\* A sort that is not stable: id goes before the elements of equal key.
RECURSIVE insertSortedUnstable(_, _, _)
insertSortedUnstable(pages, sorted, id) ==
    IF sorted = <<>> THEN <<id>>
    ELSE IF sortKey(pages[Head(sorted) + 1]) - sortKey(pages[id + 1]) < 0
         THEN <<Head(sorted)>> \o insertSortedUnstable(pages, Tail(sorted), id)
         ELSE <<id>> \o sorted

\* Array.prototype.sort is stable: id goes after every element whose key is
\* not greater than its own.
RECURSIVE insertSorted(_, _, _)
insertSorted(pages, sorted, id) ==
    IF sorted = <<>> THEN <<id>>
    ELSE IF sortKey(pages[Head(sorted) + 1]) - sortKey(pages[id + 1]) <= 0
         THEN <<Head(sorted)>> \o insertSorted(pages, Tail(sorted), id)
         ELSE <<id>> \o sorted

RECURSIVE sortUpTo(_, _)
sortUpTo(pages, n) ==
    IF n = 0 THEN <<>> ELSE insertSorted(pages, sortUpTo(pages, n - 1), n - 1)

\* [...pages].sort((a, b) => (a.analysis.pageNumber || 999) - (b.analysis.pageNumber || 999))
fallbackSort(pages) == sortUpTo(pages, Len(pages))

\* `if (id)` in place of `if (pages[id])`: tempId 0 is dropped.
RECURSIVE pushHintedTruthyId(_, _)
pushHintedTruthyId(n, newOrderIds) ==
    IF newOrderIds = <<>> THEN <<>>
    ELSE (IF Head(newOrderIds) > 0 /\ Head(newOrderIds) < n
          THEN <<Head(newOrderIds)>> ELSE <<>>)
         \o pushHintedTruthyId(n, Tail(newOrderIds))

\* newOrderIds.forEach(id => { if (pages[id]) reorderedPages.push(pages[id]); })
RECURSIVE pushHinted(_, _)
pushHinted(n, newOrderIds) ==
    IF newOrderIds = <<>> THEN <<>>
    ELSE (IF Head(newOrderIds) >= 0 /\ Head(newOrderIds) < n
          THEN <<Head(newOrderIds)>> ELSE <<>>)
         \o pushHinted(n, Tail(newOrderIds))

\* pages.forEach((p, idx) => { if (!newOrderIds.includes(idx)) reorderedPages.push(p); })
RECURSIVE pushMissing(_, _, _)
pushMissing(n, newOrderIds, idx) ==
    IF idx >= n THEN <<>>
    ELSE (IF idx \in Range(newOrderIds) THEN <<>> ELSE <<idx>>)
         \o pushMissing(n, newOrderIds, idx + 1)

\* The body of `if (response.text)` for a parsed array.
reorderedPages(n, newOrderIds) ==
    pushHinted(n, newOrderIds) \o pushMissing(n, newOrderIds, 0)

\* The input order, pages returned as they are.
inputOrder(n) == [k \in 1..n |-> k - 1]

\* if (pages.length <= 1) return pages;
ReorderReturnAsIs ==
    /\ rPc = "call"
    /\ Len(rPages) <= 1
    /\ rOut' = inputOrder(Len(rPages))
    /\ rPath' = "asis"
    /\ rPc' = "done"
    /\ UNCHANGED <<rPages, rResp>>
    /\ UNCHANGED cvars
    /\ UNCHANGED <<avars, assembly, analyzer>>

\* response.text is truthy and parses to an array: the hint is applied.
ReorderApplyHint ==
    /\ rPc = "call"
    /\ Len(rPages) > 1
    /\ rResp.kind \in {"array", "nonints"}
    /\ rOut' = reorderedPages(Len(rPages),
                              IF rResp.kind = "array" THEN rResp.ids ELSE <<>>)
    /\ rPath' = "hint"
    /\ rPc' = "done"
    /\ UNCHANGED <<rPages, rResp>>
    /\ UNCHANGED cvars
    /\ UNCHANGED <<avars, assembly, analyzer>>

\* response.text is falsy: `return pages; // Fallback`
ReorderNoText ==
    /\ rPc = "call"
    /\ Len(rPages) > 1
    /\ rResp.kind = "empty"
    /\ rOut' = inputOrder(Len(rPages))
    /\ rPath' = "notext"
    /\ rPc' = "done"
    /\ UNCHANGED <<rPages, rResp>>
    /\ UNCHANGED cvars
    /\ UNCHANGED <<avars, assembly, analyzer>>

\* catch (e): the call rejected, JSON.parse threw, or forEach is not a function.
ReorderCatch ==
    /\ rPc = "call"
    /\ Len(rPages) > 1
    /\ rResp.kind \in {"raise", "badjson", "nonarray"}
    /\ rOut' = fallbackSort(rPages)
    /\ rPath' = "catch"
    /\ rPc' = "done"
    /\ UNCHANGED <<rPages, rResp>>
    /\ UNCHANGED cvars
    /\ UNCHANGED <<avars, assembly, analyzer>>

InitReorder ==
    /\ rPc = "call"
    /\ rPages \in SeqsOf(PageNumbers \cup {Absent}, 0, MaxPages)
    /\ rResp \in IF Len(rPages) <= 1
                 THEN {[kind |-> "raise", ids |-> <<>>]}
                 ELSE Responses(Len(rPages))
    /\ rOut = <<>>
    /\ rPath = "none"
    /\ CropIdle
    /\ AppIdle
    /\ AssemblyIdle
    /\ AnalyzerIdle

NextReorder ==
    \/ ReorderReturnAsIs
    \/ ReorderApplyHint
    \/ ReorderNoText
    \/ ReorderCatch

SpecReorder == InitReorder /\ [][NextReorder]_vars

----------------------------------------------------------------------------
(* App: ingestion and the user's edits *)

\* The files a directory pick can deliver: parent directory, name, byte size
\* and what isImage / isPdf make of the MIME type and extension.
RawFiles ==
    { [folder |-> "A", name |-> "a.jpg", size |-> 1, kind |-> "image"],
      [folder |-> "A", name |-> "b.pdf", size |-> 1, kind |-> "pdf"],
      [folder |-> "B", name |-> "a.jpg", size |-> 1, kind |-> "image"],
      [folder |-> "B", name |-> "n.txt", size |-> 1, kind |-> "other"] }

\* PreviewModal.handleRotate: (currentRotation + 90) % 360
nextRotation(currentRotation) == (currentRotation + 90) % 360

\* Intl.Collator(undefined, {numeric: true, sensitivity: 'base'}).compare on
\* the names of RawFiles.
nameRank(name) == CASE name = "a.jpg" -> 1 [] name = "b.pdf" -> 2 [] OTHER -> 3

collatorCompare(a, b) == nameRank(a) - nameRank(b)

\* [...array].sort(...) is stable.
RECURSIVE insertByName(_, _)
insertByName(sorted, item) ==
    IF sorted = <<>> THEN <<item>>
    ELSE IF collatorCompare(Head(sorted).name, item.name) <= 0
         THEN <<Head(sorted)>> \o insertByName(Tail(sorted), item)
         ELSE <<item>> \o sorted

RECURSIVE naturalSort(_)
naturalSort(array) ==
    IF array = <<>> THEN <<>>
    ELSE insertByName(naturalSort(SubSeq(array, 1, Len(array) - 1)), array[Len(array)])

\* if (isImage(file) || isPdf(file))
accepted(allFiles) == SelectSeq(allFiles, LAMBDA f : f.kind \in {"image", "pdf"})

\* The FileItem pushed for a file.
newFileItem(file) ==
    [id |-> <<file.folder, file.name, file.size>>,
     name |-> file.name,
     type |-> IF file.kind = "pdf" THEN "pdf" ELSE "image",
     selected |-> TRUE,
     rotation |-> 0]

\* The keys of `groups`, in the order Object.entries lists them (first insertion).
RECURSIVE groupNames(_)
groupNames(files) ==
    IF files = <<>> THEN <<>>
    ELSE <<Head(files).folder>>
         \o SelectSeq(groupNames(Tail(files)), LAMBDA n : n # Head(files).folder)

\* groups[folderName]
groupOf(files, folderName) ==
    LET mine == SelectSeq(files, LAMBDA f : f.folder = folderName)
    IN  [k \in 1..Len(mine) |-> newFileItem(mine[k])]

\* const newFolders = Object.entries(groups).map(...)
newFolders(allFiles) ==
    LET files == accepted(allFiles)
        names == groupNames(files)
    IN  [k \in 1..Len(names) |->
            [folderName |-> names[k],
             files |-> naturalSort(groupOf(files, names[k])),
             status |-> "pending",
             resultDocBlob |-> 0]]

\* addLog
addLog(log, msgs) == log \o msgs

\* The user's edits happen between the awaits of a run, never inside the
\* synchronous stretch from one folder's end to the next folder's first await.
CanEdit == pc # "loop" /\ budget.edits < MaxEdits

handleFileInputChange ==
    /\ pc # "loop"
    /\ budget.ingests < MaxIngests
    /\ \E allFiles \in SeqsOf(RawFiles, 1, MaxFiles) :
         LET created == newFolders(allFiles)
         IN  /\ heap' = heap \o created
             /\ folders' = [k \in 1..Len(created) |-> Len(heap) + k]
    /\ processingLog' = addLog(processingLog, <<"loaded">>)
    /\ budget' = [budget EXCEPT !.ingests = @ + 1]
    /\ UNCHANGED <<apiKey, options, isProcessing, pc, run>>
    /\ UNCHANGED <<rvars, cvars, assembly, analyzer>>

\* setFolders(prev => { const newFolders = [...prev]; folder.files = ...; })
\* the FolderGroup object itself is written.
toggleFileSelection ==
    /\ CanEdit
    /\ \E folderIdx \in 1..Len(folders) :
         \E fileIdx \in 1..Len(heap[folders[folderIdx]].files) :
           LET o == folders[folderIdx]
               fileId == heap[o].files[fileIdx].id
           IN  heap' = [heap EXCEPT ![o].files =
                          [k \in 1..Len(@) |->
                              IF @[k].id = fileId
                              THEN [@[k] EXCEPT !.selected = ~@]
                              ELSE @[k]]]
    /\ budget' = [budget EXCEPT !.edits = @ + 1]
    /\ UNCHANGED <<apiKey, folders, options, isProcessing, processingLog, pc, run>>
    /\ UNCHANGED <<rvars, cvars, assembly, analyzer>>

toggleFolderSelection ==
    /\ CanEdit
    /\ \E folderIdx \in 1..Len(folders), selectAll \in BOOLEAN :
         LET o == folders[folderIdx]
         IN  heap' = [heap EXCEPT ![o].files =
                        [k \in 1..Len(@) |-> [@[k] EXCEPT !.selected = selectAll]]]
    /\ budget' = [budget EXCEPT !.edits = @ + 1]
    /\ UNCHANGED <<apiKey, folders, options, isProcessing, processingLog, pc, run>>
    /\ UNCHANGED <<rvars, cvars, assembly, analyzer>>

\* setFolders(prev => prev.map(folder => ({...folder, files: ...}))): every
\* FolderGroup is replaced by a copy. The preview offers rotation for images
\* and calls onUpdateRotation(fileItem.id, newRotation).
updateFileRotation ==
    /\ CanEdit
    /\ \E folderIdx \in 1..Len(folders) :
         \E fileIdx \in 1..Len(heap[folders[folderIdx]].files) :
           LET fileItem == heap[folders[folderIdx]].files[fileIdx]
               newRotation == nextRotation(fileItem.rotation)
               copy(o) == [heap[o] EXCEPT !.files =
                              [k \in 1..Len(@) |->
                                  IF @[k].id = fileItem.id
                                  THEN [@[k] EXCEPT !.rotation = newRotation]
                                  ELSE @[k]]]
           IN  /\ fileItem.type = "image"
               /\ heap' = heap \o [k \in 1..Len(folders) |-> copy(folders[k])]
               /\ folders' = [k \in 1..Len(folders) |-> Len(heap) + k]
    /\ budget' = [budget EXCEPT !.edits = @ + 1]
    /\ UNCHANGED <<apiKey, options, isProcessing, processingLog, pc, run>>
    /\ UNCHANGED <<rvars, cvars, assembly, analyzer>>

\* onChange of the summary checkbox.
setGenerateSummary ==
    /\ CanEdit
    /\ options' = [options EXCEPT !.generateSummary = ~@]
    /\ budget' = [budget EXCEPT !.edits = @ + 1]
    /\ UNCHANGED <<apiKey, heap, folders, isProcessing, processingLog, pc, run>>
    /\ UNCHANGED <<rvars, cvars, assembly, analyzer>>

----------------------------------------------------------------------------
(* App: processFolders *)

\* Detected page numbers an analysis can carry.
AnalysisNumbers == {Absent, 1, 2}

\* docxPagesBuffer.push({originalFileName, analysis, imageBlob, sourceType}):
\* label is idx+1 of `${fileItem.name} [Page ${idx+1}]` (0: no label), sourcePage
\* the page of the PDF the blob was rendered from, type the blob's MIME type.
\* processFolders never reads `analysis`: it hands it to reorderPagesByContent,
\* generateSummary and createDocx, where its content is drawn.
newPage(fileItem, label, sourcePage, type) ==
    [file |-> fileItem.name, label |-> label, sourcePage |-> sourcePage,
     rotation |-> fileItem.rotation, type |-> type]

\* The ascending sequence of the elements of a set of numbers.
RECURSIVE ascending(_)
ascending(S) ==
    IF S = {} THEN <<>>
    ELSE LET m == CHOOSE x \in S : \A y \in S : x <= y
         IN  <<m>> \o ascending(S \ {m})

\* convertPdfToImages: the pages of the PDF that rendered, in page order; a page
\* whose rendering fails is skipped.
RenderedPages == {ascending(S) : S \in SUBSET (1..MaxPdfPages)}

\* The try block of one PDF item: [pages pushed, log entries, result].
\* analyzePage catches the collaborator's failures and raises only when
\* getAiClient or fileToGenerativePart does (always without an API key); the
\* pages analysed before it stay in the buffer.
pdfOutcomes(fileItem) ==
    LET failedConvert ==
            {[pages |-> <<>>, log |-> <<"pdfExtract", "itemError">>, result |-> "failed"]}
        pagesOf(rendered, n) ==
            [k \in 1..n |-> newPage(fileItem, k, rendered[k], "image/jpeg")]
        analyzeLog(n) == [k \in 1..n |-> "pdfAnalyze"]
        complete(rendered) ==
            {[pages |-> pagesOf(rendered, Len(rendered)),
              log |-> <<"pdfExtract", "pdfPages">> \o analyzeLog(Len(rendered)),
              result |-> "ok"]}
        raised(rendered) ==
            {[pages |-> pagesOf(rendered, j - 1),
              log |-> <<"pdfExtract", "pdfPages">> \o analyzeLog(j) \o <<"itemError">>,
              result |-> "failed"]
             : j \in 1..(IF apiKey THEN Len(rendered) ELSE 1)}
    IN  failedConvert
        \cup UNION {(IF apiKey THEN complete(rendered) ELSE {}) \cup raised(rendered)
                    : rendered \in RenderedPages \ {<<>>}}

\* The try block of one image item.
imageOutcomes(fileItem) ==
    LET rotateLog == IF fileItem.rotation # 0 THEN <<"rotate">> ELSE <<>>
        failedRotate ==
            IF fileItem.rotation # 0
            THEN {[pages |-> <<>>, log |-> <<"rotate", "itemError">>, result |-> "failed"]}
            ELSE {}
        failedAnalyze ==
            {[pages |-> <<>>, log |-> rotateLog \o <<"imgAnalyze", "itemError">>,
              result |-> "failed"]}
        analyzed ==
            {[pages |-> <<newPage(fileItem, 0, 0, "image/source")>>,
              log |-> rotateLog \o <<"imgAnalyze">>,
              result |-> "ok"]}
    IN  failedRotate \cup failedAnalyze \cup (IF apiKey THEN analyzed ELSE {})

itemOutcomes(fileItem) ==
    IF fileItem.type = "pdf" THEN pdfOutcomes(fileItem) ELSE imageOutcomes(fileItem)

\* A click handler that never calls setIsProcessing(true).
processFoldersNoFlag ==
    /\ ~isProcessing
    /\ Len(folders) > 0
    /\ budget.runs < MaxRuns
    /\ budget' = [budget EXCEPT !.runs = @ + 1]
    /\ LET foldersToProcess ==
               SelectSeq(folders, LAMBDA o : \E k \in 1..Len(heap[o].files) :
                                                heap[o].files[k].selected)
       IN  IF foldersToProcess = <<>>
           THEN /\ processingLog' = addLog(processingLog, <<"nothingSelected">>)
                /\ UNCHANGED <<pc, run>>
           ELSE /\ processingLog' = addLog(processingLog, <<"start">>)
                /\ run' = [NoRun EXCEPT !.updatedFolders = folders,
                                        !.generateSummary = options.generateSummary]
                /\ pc' = "loop"
    /\ UNCHANGED <<apiKey, heap, folders, options, isProcessing>>
    /\ UNCHANGED <<rvars, cvars, assembly, analyzer>>

\* The click on "Начать Обработку": disabled={isProcessing || folders.length === 0}.
\* Runs to the first await, that is to the head of the folder loop.
processFolders ==
    /\ ~isProcessing
    /\ Len(folders) > 0
    /\ budget.runs < MaxRuns
    /\ budget' = [budget EXCEPT !.runs = @ + 1]
    /\ LET foldersToProcess ==
               SelectSeq(folders, LAMBDA o : \E k \in 1..Len(heap[o].files) :
                                                heap[o].files[k].selected)
       IN  IF foldersToProcess = <<>>
           THEN /\ processingLog' = addLog(processingLog, <<"nothingSelected">>)
                /\ UNCHANGED <<isProcessing, pc, run>>
           ELSE /\ isProcessing' = TRUE
                /\ processingLog' = addLog(processingLog, <<"start">>)
                /\ run' = [NoRun EXCEPT !.updatedFolders = folders,
                                        !.generateSummary = options.generateSummary]
                /\ pc' = "loop"
    /\ UNCHANGED <<apiKey, heap, folders, options>>
    /\ UNCHANGED <<rvars, cvars, assembly, analyzer>>

\* for (let i = 0; i < updatedFolders.length; i++) up to PHASE 1, or the end
\* of the run after the last folder.
folderLoop ==
    /\ pc = "loop"
    /\ IF run.i >= Len(run.updatedFolders)
       THEN /\ isProcessing' = FALSE
            /\ processingLog' = addLog(processingLog, <<"allDone">>)
            /\ pc' = "idle"
            /\ run' = NoRun
            /\ UNCHANGED <<heap, folders>>
       ELSE LET o == run.updatedFolders[run.i + 1]
                filesToProcess == SelectSeq(heap[o].files, LAMBDA f : f.selected)
            IN  IF filesToProcess = <<>>
                THEN /\ run' = [run EXCEPT !.i = @ + 1]
                     /\ UNCHANGED <<heap, folders, isProcessing, processingLog, pc>>
                ELSE /\ heap' = [heap EXCEPT ![o].status = "processing"]
                     /\ folders' = run.updatedFolders
                     /\ run' = [run EXCEPT !.filesToProcess = filesToProcess,
                                           !.item = 1,
                                           !.itemResults = <<>>,
                                           !.docxPagesBuffer = <<>>,
                                           !.orderedPages = <<>>,
                                           !.summaryText = "null"]
                     /\ processingLog' = addLog(processingLog, <<"phase1">>)
                     /\ pc' = "items"
                     /\ UNCHANGED isProcessing
    /\ UNCHANGED <<apiKey, options, budget>>
    /\ UNCHANGED <<rvars, cvars, assembly, analyzer>>

\* One iteration of `for (const fileItem of filesToProcess)`: the try block
\* and its catch.
processItem ==
    /\ pc = "items"
    /\ \E outcome \in itemOutcomes(run.filesToProcess[run.item]) :
         /\ run' = [run EXCEPT !.docxPagesBuffer = @ \o outcome.pages,
                               !.itemResults = Append(@, outcome.result),
                               !.item = @ + 1]
         /\ processingLog' = addLog(processingLog, outcome.log)
    /\ pc' = IF run.item = Len(run.filesToProcess) THEN "reorder" ELSE "items"
    /\ UNCHANGED <<apiKey, heap, folders, options, isProcessing, budget>>
    /\ UNCHANGED <<rvars, cvars, assembly, analyzer>>

\* The pages of `pages` in the order of the indices `order`.
pagesInOrder(pages, order) == [k \in 1..Len(order) |-> pages[order[k] + 1]]

\* What reorderPagesByContent(pages) can return, as index orders; {} when it
\* raises: getAiClient() stands before the try. The catch sorts by the detected
\* numbers of the analyses, the other returns do not read them.
reorderResults(pages) ==
    LET n == Len(pages)
        applied == {reorderedPages(n, h) : h \in SeqsOf(-1..n, 0, MaxHintLen)}
        asGiven == {inputOrder(n)}
        caught == {fallbackSort(nums) : nums \in [1..n -> AnalysisNumbers]}
    IN  IF n <= 1 THEN asGiven
        ELSE IF ~apiKey THEN {}
        ELSE applied \cup asGiven \cup caught

\* PHASE 2: const orderedPages = await reorderPagesByContent(docxPagesBuffer)
reorderPhase ==
    /\ pc = "reorder"
    /\ LET results == reorderResults(run.docxPagesBuffer)
       IN  IF results = {}
           THEN /\ pc' = "aborted"
                /\ processingLog' = addLog(processingLog, <<"phase2">>)
                /\ UNCHANGED run
           ELSE /\ \E order \in results :
                     run' = [run EXCEPT !.orderedPages =
                                pagesInOrder(run.docxPagesBuffer, order)]
                /\ processingLog' = addLog(processingLog, <<"phase2", "ordered">>)
                /\ pc' = "summary"
    /\ UNCHANGED <<apiKey, heap, folders, options, isProcessing, budget>>
    /\ UNCHANGED <<rvars, cvars, assembly, analyzer>>

\* What the summarization collaborator does: it answers with a text ("text"),
\* with a text of nothing but blanks, control characters and Markdown marks
\* ("marks"), without text ("notext"), or the call rejects ("raise").
SummaryResponses == {"text", "marks", "notext", "raise"}

\* generateSummary past its getAiClient(): cleanMarkdown(sanitizeText(rawText))
\* with rawText = response.text || "Не удалось создать саммари.", and
\* "Ошибка при генерации саммари." from the catch.
generateSummary(response) ==
    CASE response = "text" -> "summary"
      [] response = "marks" -> ""
      [] response = "notext" -> "noSummaryMessage"
      [] response = "raise" -> "errorMessage"

\* What generateSummary returns.
SummaryTexts == {generateSummary(response) : response \in SummaryResponses}

\* PHASE 3: generateSummary is called when options.generateSummary was set at
\* the click; getAiClient() stands before its try.
summaryPhase ==
    /\ pc = "summary"
    /\ IF ~run.generateSummary
       THEN /\ pc' = "docx"
            /\ UNCHANGED <<run, processingLog>>
       ELSE /\ processingLog' = addLog(processingLog, <<"phase3">>)
            /\ IF apiKey
               THEN /\ \E text \in SummaryTexts : run' = [run EXCEPT !.summaryText = text]
                    /\ pc' = "docx"
               ELSE /\ pc' = "aborted"
                    /\ UNCHANGED run
    /\ UNCHANGED <<apiKey, heap, folders, options, isProcessing, budget>>
    /\ UNCHANGED <<rvars, cvars, assembly, analyzer>>

\* A PHASE 4 whose catch marks the folder and throws again.
docxPhaseThrowsAgain ==
    /\ pc = "docx"
    /\ LET o == run.updatedFolders[run.i + 1]
       IN  \E created \in BOOLEAN :
             IF created
             THEN /\ heap' = [heap EXCEPT ![o].resultDocBlob = budget.runs,
                                          ![o].status = "completed"]
                  /\ processingLog' = addLog(processingLog, <<"phase4", "success">>)
                  /\ folders' = run.updatedFolders
                  /\ run' = [run EXCEPT !.i = @ + 1,
                                        !.filesToProcess = <<>>,
                                        !.item = 0,
                                        !.itemResults = <<>>,
                                        !.docxPagesBuffer = <<>>,
                                        !.orderedPages = <<>>,
                                        !.summaryText = "null"]
                  /\ pc' = "loop"
             ELSE /\ heap' = [heap EXCEPT ![o].status = "error"]
                  /\ processingLog' = addLog(processingLog, <<"phase4", "docxError">>)
                  /\ pc' = "aborted"
                  /\ UNCHANGED <<folders, run>>
    /\ UNCHANGED <<apiKey, options, isProcessing, budget>>
    /\ UNCHANGED <<rvars, cvars, assembly, analyzer>>

\* A PHASE 4 that sets folder.status = 'completed' after the try/catch.
docxPhaseCompletedAfterCatch ==
    /\ pc = "docx"
    /\ LET o == run.updatedFolders[run.i + 1]
       IN  \E created \in BOOLEAN :
             IF created
             THEN /\ heap' = [heap EXCEPT ![o].resultDocBlob = budget.runs,
                                          ![o].status = "completed"]
                  /\ processingLog' = addLog(processingLog, <<"phase4", "success">>)
             ELSE /\ heap' = [heap EXCEPT ![o].status = "completed"]
                  /\ processingLog' = addLog(processingLog, <<"phase4", "docxError">>)
    /\ folders' = run.updatedFolders
    /\ run' = [run EXCEPT !.i = @ + 1,
                          !.filesToProcess = <<>>,
                          !.item = 0,
                          !.itemResults = <<>>,
                          !.docxPagesBuffer = <<>>,
                          !.orderedPages = <<>>,
                          !.summaryText = "null"]
    /\ pc' = "loop"
    /\ UNCHANGED <<apiKey, options, isProcessing, budget>>
    /\ UNCHANGED <<rvars, cvars, assembly, analyzer>>

\* PHASE 4: try { createDocx ... status = 'completed' } catch { status = 'error' },
\* then setFolders([...updatedFolders]) and the loop's i++.
docxPhase ==
    /\ pc = "docx"
    /\ LET o == run.updatedFolders[run.i + 1]
       IN  \E created \in BOOLEAN :
             IF created
             THEN /\ heap' = [heap EXCEPT ![o].resultDocBlob = budget.runs,
                                          ![o].status = "completed"]
                  /\ processingLog' = addLog(processingLog, <<"phase4", "success">>)
             ELSE /\ heap' = [heap EXCEPT ![o].status = "error"]
                  /\ processingLog' = addLog(processingLog, <<"phase4", "docxError">>)
    /\ folders' = run.updatedFolders
    /\ run' = [run EXCEPT !.i = @ + 1,
                          !.filesToProcess = <<>>,
                          !.item = 0,
                          !.itemResults = <<>>,
                          !.docxPagesBuffer = <<>>,
                          !.orderedPages = <<>>,
                          !.summaryText = "null"]
    /\ pc' = "loop"
    /\ UNCHANGED <<apiKey, options, isProcessing, budget>>
    /\ UNCHANGED <<rvars, cvars, assembly, analyzer>>

Init ==
    /\ apiKey \in BOOLEAN
    /\ heap = <<>>
    /\ folders = <<>>
    /\ options = [generateSummary |-> TRUE]
    /\ isProcessing = FALSE
    /\ processingLog = <<>>
    /\ pc = "idle"
    /\ run = NoRun
    /\ budget = [runs |-> 0, ingests |-> 0, edits |-> 0]
    /\ ReorderIdle
    /\ CropIdle
    /\ AssemblyIdle
    /\ AnalyzerIdle

Next ==
    \/ handleFileInputChange
    \/ toggleFileSelection
    \/ toggleFolderSelection
    \/ updateFileRotation
    \/ setGenerateSummary
    \/ processFolders
    \/ folderLoop
    \/ processItem
    \/ reorderPhase
    \/ summaryPhase
    \/ docxPhase

Spec == Init /\ [][Next]_vars

----------------------------------------------------------------------------
(* One folder's PHASES 2-4 with the content of its pages: processFolders,  *)
(* the text it hands to generateSummary, and createDocx                    *)

\* A block's text is one piece of text; a longer string is the sequence of
\* its pieces.

\* The types the response schema of analyzePage allows for a block.
BlockTypes == {"heading", "subheading", "author", "paragraph", "image_description",
               "table_crop", "formula_crop", "image_crop"}

\* ['image_crop', 'table_crop', 'formula_crop']
CropTypes == {"image_crop", "table_crop", "formula_crop"}

\* The blocks of an analysis: a bounding box comes with the crop types only,
\* and the text "null" (the four letters) with a box only.
Blocks ==
    {b \in [type : BlockTypes, text : {"txt", "null"}, boundingBox : BOOLEAN] :
        /\ b.type \notin CropTypes => ~b.boundingBox
        /\ ~b.boundingBox => b.text = "txt"}

\* originalFileName of the pages of docxPagesBuffer, in the order of the push.
PageNames == <<"a.jpg", "b.jpg", "c.jpg">>

\* docxPagesBuffer.push({originalFileName, analysis, imageBlob, sourceType}):
\* imageBlob is always set.
bufferPage(k, blocks) ==
    [originalFileName |-> PageNames[k], blocks |-> blocks, imageBlob |-> TRUE]

\* The ways to end n pages within `len` blocks laid end to end.
pageEnds(n, len) ==
    {e \in [1..n -> 0..len] :
        /\ \A k \in 1..(n - 1) : e[k] <= e[k + 1]
        /\ n > 0 => e[n] = len}

\* The buffers of at most maxPages pages holding at most maxBlocks blocks
\* between them.
Buffers(maxPages, maxBlocks) ==
    UNION {{[k \in 1..n |->
                bufferPage(k, SubSeq(all, (IF k = 1 THEN 0 ELSE e[k - 1]) + 1, e[k]))]
            : e \in pageEnds(n, Len(all))}
           : n \in 0..maxPages, all \in SeqsOf(Blocks, 0, maxBlocks)}

\* What reorderPagesByContent returns for n pages, as index orders: the input
\* for n <= 1, else the hint of the ranking collaborator applied, for the hints
\* that name every page once.
rankedOrders(n) ==
    IF n <= 1 THEN {inputOrder(n)}
    ELSE {reorderedPages(n, h) : h \in {g \in SeqsOf(0..(n - 1), n, n) : Range(g) = 0..(n - 1)}}

\* Array.prototype.join
RECURSIVE join(_, _)
join(strings, separator) ==
    IF strings = <<>> THEN <<>>
    ELSE IF Len(strings) = 1 THEN Head(strings)
    ELSE Head(strings) \o <<separator>> \o join(Tail(strings), separator)

\* A filter that also drops the formulas.
inSummaryNoCrops(b) == b.type \notin CropTypes

\* .filter(b => b.type !== 'image_crop' && b.type !== 'table_crop')
inSummary(b) == b.type # "image_crop" /\ b.type # "table_crop"

\* p.analysis.blocks.filter(...).map(b => b.text).join(' ')
pageText(p) ==
    LET kept == SelectSeq(p.blocks, inSummary)
    IN  join([k \in 1..Len(kept) |-> <<kept[k].text>>], " ")

\* orderedPages.map(...).join('\n\n')
fullTextOf(orderedPages) ==
    join([k \in 1..Len(orderedPages) |-> pageText(orderedPages[k])], "\n\n")

\* An element of docChildren; page and block are the loop indices i and bIdx
\* at the push (-1 for the summary section).
element(kind, text, i, bIdx) == [kind |-> kind, text |-> text, page |-> i, block |-> bIdx]

\* if (summary) docChildren.push(heading, paragraph, separator)
summarySection(summary) ==
    IF summary \notin {"null", ""}
    THEN << element("summaryHeading", <<"REZYUME (SUMMARY)">>, -1, -1),
            element("summaryText", <<summary>>, -1, -1),
            element("separator", <<"--- TEKST DOKUMENTA ---">>, -1, -1) >>
    ELSE <<>>

\* The condition of the crop branch.
cropEligible(block, page) ==
    block.type \in CropTypes /\ block.boundingBox /\ page.imageBlob

\* A caption that is always the block's text.
captionOwnText(block) == block.text

\* "Таблица", "Формула", "Рисунок" for a text of "null".
caption(block) ==
    IF block.text # "null" THEN block.text
    ELSE IF block.type = "table_crop" THEN "Tablitsa"
    ELSE IF block.type = "formula_crop" THEN "Formula"
    ELSE "Risunok"

\* docChildren.push(image paragraph, caption paragraph)
cropElements(block, i, bIdx) ==
    << element("image", <<>>, i, bIdx),
       element("caption", <<"[", caption(block), "]">>, i, bIdx) >>

\* The paragraph of the catch: `[Ошибка отображения: ${block.text}]`
errorParagraph(block, i, bIdx) ==
    << element("error", <<"[Oshibka otobrazheniya: ", block.text, "]">>, i, bIdx) >>

\* A switch without the default case.
textParagraphNoDefault(block, i, bIdx) ==
    IF block.type \in {"heading", "subheading", "author", "paragraph"}
    THEN << element(block.type, <<block.text>>, i, bIdx) >>
    ELSE <<>>

\* switch (block.type): heading, subheading, author, and paragraph for every
\* other type.
textParagraph(block, i, bIdx) ==
    LET kind == IF block.type \in {"heading", "subheading", "author"}
                THEN block.type ELSE "paragraph"
    IN  << element(kind, <<block.text>>, i, bIdx) >>

\* The two for loops of createDocx: the first block at or after (i, bIdx), or
\* i = pages.length when there is none.
RECURSIVE seek(_, _, _)
seek(pages, i, bIdx) ==
    IF i >= Len(pages) THEN [i |-> Len(pages), bIdx |-> 0]
    ELSE IF bIdx >= Len(pages[i + 1].blocks) THEN seek(pages, i + 1, 0)
    ELSE [i |-> i, bIdx |-> bIdx]

\* if (paragraph) docChildren.push(paragraph), and the loops' next block.
pushAndGoOn(elements) ==
    LET next == seek(assembly.orderedPages, assembly.i, assembly.bIdx + 1)
    IN  [assembly EXCEPT !.docChildren = @ \o elements,
                         !.i = next.i,
                         !.bIdx = next.bIdx,
                         !.pc = IF next.i >= Len(assembly.orderedPages)
                                THEN "pack" ELSE "blocks"]

currentPage == assembly.orderedPages[assembly.i + 1]

currentBlock == currentPage.blocks[assembly.bIdx + 1]

\* PHASE 2: const orderedPages = await reorderPagesByContent(docxPagesBuffer)
reorderPages ==
    /\ assembly.pc = "reorder"
    /\ \E order \in rankedOrders(Len(assembly.docxPagesBuffer)) :
         assembly' = [assembly EXCEPT
                         !.orderedPages = pagesInOrder(assembly.docxPagesBuffer, order),
                         !.pc = "summary"]
    /\ UNCHANGED <<rvars, cvars, avars, analyzer>>

\* PHASE 3: fullText and summaryText = await generateSummary(fullText, ...)
buildSummary ==
    /\ assembly.pc = "summary"
    /\ IF assembly.generateSummary
       THEN \E response \in SummaryResponses :
              assembly' = [assembly EXCEPT !.fullText = fullTextOf(assembly.orderedPages),
                                           !.summaryResponse = response,
                                           !.summaryText = generateSummary(response),
                                           !.pc = "createDocx"]
       ELSE assembly' = [assembly EXCEPT !.pc = "createDocx"]
    /\ UNCHANGED <<rvars, cvars, avars, analyzer>>

\* createDocx(orderedPages, summaryText) up to its first block.
createDocxStart ==
    /\ assembly.pc = "createDocx"
    /\ LET first == seek(assembly.orderedPages, 0, 0)
       IN  assembly' = [assembly EXCEPT
                           !.docChildren = summarySection(assembly.summaryText),
                           !.i = first.i,
                           !.bIdx = first.bIdx,
                           !.pc = IF first.i >= Len(assembly.orderedPages)
                                  THEN "pack" ELSE "blocks"]
    /\ UNCHANGED <<rvars, cvars, avars, analyzer>>

\* The try of the crop branch: cropImageFromBlob resolves, and `continue`.
createDocxCrop ==
    /\ assembly.pc = "blocks"
    /\ cropEligible(currentBlock, currentPage)
    /\ assembly' = pushAndGoOn(cropElements(currentBlock, assembly.i, assembly.bIdx))
    /\ UNCHANGED <<rvars, cvars, avars, analyzer>>

\* A catch that lets the failure out of createDocx.
createDocxCropRethrow ==
    /\ assembly.pc = "blocks"
    /\ cropEligible(currentBlock, currentPage)
    /\ assembly' = [assembly EXCEPT !.cropFailed = @ \cup {<<assembly.i, assembly.bIdx>>},
                                    !.status = "error",
                                    !.pc = "done"]
    /\ UNCHANGED <<rvars, cvars, avars, analyzer>>

\* The catch of the crop branch: cropImageFromBlob (or arrayBuffer) rejects.
createDocxCropError ==
    /\ assembly.pc = "blocks"
    /\ cropEligible(currentBlock, currentPage)
    /\ assembly' = [pushAndGoOn(errorParagraph(currentBlock, assembly.i, assembly.bIdx))
                       EXCEPT !.cropFailed = @ \cup {<<assembly.i, assembly.bIdx>>}]
    /\ UNCHANGED <<rvars, cvars, avars, analyzer>>

\* The else branch: the standard text elements.
createDocxText ==
    /\ assembly.pc = "blocks"
    /\ ~cropEligible(currentBlock, currentPage)
    /\ assembly' = pushAndGoOn(textParagraph(currentBlock, assembly.i, assembly.bIdx))
    /\ UNCHANGED <<rvars, cvars, avars, analyzer>>

\* Packer.toBlob resolves: folder.resultDocBlob = blob; folder.status = 'completed'
docxResolved ==
    /\ assembly.pc = "pack"
    /\ assembly' = [assembly EXCEPT !.resultDocBlob = TRUE,
                                    !.status = "completed",
                                    !.pc = "done"]
    /\ UNCHANGED <<rvars, cvars, avars, analyzer>>

\* Packer.toBlob rejects: the catch of PHASE 4, folder.status = 'error'
docxRejected ==
    /\ assembly.pc = "pack"
    /\ assembly' = [assembly EXCEPT !.status = "error", !.pc = "done"]
    /\ UNCHANGED <<rvars, cvars, avars, analyzer>>

InitAssembly ==
    /\ assembly \in {[NoAssembly EXCEPT !.pc = "reorder",
                                        !.docxPagesBuffer = buffer,
                                        !.generateSummary = flag,
                                        !.status = "processing"]
                     : buffer \in Buffers(MaxDocPages, MaxDocBlocks), flag \in BOOLEAN}
    /\ AnalyzerIdle
    /\ ReorderIdle
    /\ CropIdle
    /\ AppIdle

NextAssembly ==
    \/ reorderPages
    \/ buildSummary
    \/ createDocxStart
    \/ createDocxCrop
    \/ createDocxCropError
    \/ createDocxText
    \/ docxResolved
    \/ docxRejected

SpecAssembly == InitAssembly /\ [][NextAssembly]_vars

----------------------------------------------------------------------------
(* analyzePage and the push of its result in PHASE 1 *)

\* A text is the sequence of its characters; BEL stands for the control
\* characters [\x00-\x08\x0B\x0C\x0E-\x1F].
ControlChars == {"BEL"}

RawTexts == {<<>>, <<"a">>, <<" ", "a", " ">>, <<"a", "BEL", "b">>}

RECURSIVE trimStart(_)
trimStart(text) ==
    IF text # <<>> /\ Head(text) = " " THEN trimStart(Tail(text)) ELSE text

RECURSIVE trimEnd(_)
trimEnd(text) ==
    IF text # <<>> /\ text[Len(text)] = " "
    THEN trimEnd(SubSeq(text, 1, Len(text) - 1)) ELSE text

\* text.replace(/[\x00-\x08\x0B\x0C\x0E-\x1F]/g, "").trim(), "" for no text
sanitizeText(text) ==
    trimEnd(trimStart(SelectSeq(text, LAMBDA c : c \notin ControlChars)))

\* The blocks the layout collaborator can write.
RawBlocks ==
    {b \in [type : BlockTypes, text : RawTexts, boundingBox : BOOLEAN] :
        b.type \notin CropTypes => ~b.boundingBox}

\* What generateContent does: it rejects ("raise"), answers without text
\* ("notext"), with text that is no JSON ("badjson"), with JSON that has no
\* array of blocks ("noblocks"), or with a result.
AnalyzeFailures == {"raise", "notext", "badjson", "noblocks"}

AnalyzeResponses(maxBlocks) ==
    {[kind |-> k, blocks |-> <<>>, pageNumber |-> Absent] : k \in AnalyzeFailures}
    \cup [kind : {"result"}, blocks : SeqsOf(RawBlocks, 0, maxBlocks),
          pageNumber : AnalysisNumbers]

\* The files PHASE 1 hands to analyzePage: an image, a page of a PDF.
AnalyzedFiles == {"a.jpg", "b.pdf_page_1.jpg"}

\* The value of the catch: one paragraph
\* `[Ошибка обработки страницы: ${file.name}]` and no pageNumber.
placeholder(file) ==
    [blocks |-> << [type |-> "paragraph",
                   text |-> <<"[Oshibka obrabotki stranitsy: ", file, "]">>,
                   boundingBox |-> FALSE] >>,
     pageNumber |-> Absent]

\* result.blocks = result.blocks.map(b => ({...b, text: sanitizeText(b.text)}))
sanitized(response) ==
    [blocks |-> [k \in 1..Len(response.blocks) |->
                    [response.blocks[k] EXCEPT !.text = sanitizeText(@)]],
     pageNumber |-> response.pageNumber]

\* getAiClient() throws without the API key: it stands before the try.
analyzePageThrows ==
    /\ analyzer.pc = "call"
    /\ ~apiKey
    /\ analyzer' = [analyzer EXCEPT !.pc = "raised"]
    /\ UNCHANGED <<rvars, cvars, avars, assembly>>

\* The try: response.text is parsed and returned with its texts sanitized.
analyzePageReturns ==
    /\ analyzer.pc = "call"
    /\ apiKey
    /\ analyzer.response.kind = "result"
    /\ analyzer' = [analyzer EXCEPT !.result = sanitized(analyzer.response),
                                    !.pc = "returned"]
    /\ UNCHANGED <<rvars, cvars, avars, assembly>>

\* A catch that reports the failure to the caller.
analyzePageCatchThrows ==
    /\ analyzer.pc = "call"
    /\ apiKey
    /\ analyzer.response.kind \in AnalyzeFailures
    /\ analyzer' = [analyzer EXCEPT !.pc = "raised"]
    /\ UNCHANGED <<rvars, cvars, avars, assembly>>

\* The catch: whatever the try raised, the placeholder is returned.
analyzePageCatch ==
    /\ analyzer.pc = "call"
    /\ apiKey
    /\ analyzer.response.kind \in AnalyzeFailures
    /\ analyzer' = [analyzer EXCEPT !.result = placeholder(analyzer.file),
                                    !.pc = "returned"]
    /\ UNCHANGED <<rvars, cvars, avars, assembly>>

\* docxPagesBuffer.push({originalFileName, analysis, imageBlob, sourceType})
pushAnalysis ==
    /\ analyzer.pc = "returned"
    /\ analyzer' = [analyzer EXCEPT
                       !.docxPagesBuffer = Append(@, [originalFileName |-> analyzer.file,
                                                      analysis |-> analyzer.result]),
                       !.pc = "pushed"]
    /\ UNCHANGED <<rvars, cvars, avars, assembly>>

\* The catch of the item in PHASE 1: nothing is pushed.
itemCatch ==
    /\ analyzer.pc = "raised"
    /\ analyzer' = [analyzer EXCEPT !.pc = "caught"]
    /\ UNCHANGED <<rvars, cvars, avars, assembly>>

InitAnalyzer ==
    /\ analyzer \in {[NoCall EXCEPT !.pc = "call", !.file = file, !.response = response]
                     : file \in AnalyzedFiles, response \in AnalyzeResponses(MaxBlocks)}
    /\ apiKey \in BOOLEAN
    /\ heap = <<>>
    /\ folders = <<>>
    /\ options = [generateSummary |-> TRUE]
    /\ isProcessing = FALSE
    /\ processingLog = <<>>
    /\ pc = "idle"
    /\ run = NoRun
    /\ budget = [runs |-> 0, ingests |-> 0, edits |-> 0]
    /\ AssemblyIdle
    /\ ReorderIdle
    /\ CropIdle

NextAnalyzer ==
    \/ analyzePageThrows
    \/ analyzePageReturns
    \/ analyzePageCatch
    \/ pushAnalysis
    \/ itemCatch

SpecAnalyzer == InitAnalyzer /\ [][NextAnalyzer]_vars

----------------------------------------------------------------------------
(* Properties of processFolders, checked under Spec *)

\* The status changes the state machine of a FolderGroup names.
statusStep(from, to) ==
    \/ from = to
    \/ <<from, to>> \in {<<"pending", "processing">>,
                         <<"processing", "completed">>,
                         <<"processing", "error">>}

\* C1: the status of a folder only moves pending -> processing -> completed or
\* error, and a folder that is completed or error never changes status again,
\* over any sequence of user actions and runs (a second run included).
C1_StatusMonotonic ==
    [][\A o \in 1..Len(heap) : statusStep(heap[o].status, heap'[o].status)]_vars

\* The items of the folder in work whose try block raised.
failedItems == {k \in 1..Len(run.itemResults) : run.itemResults[k] = "failed"}

\* The log entries of the folder in work: those after the last "phase1".
folderLog ==
    LET starts == {k \in 1..Len(processingLog) : processingLog[k] = "phase1"}
        last == CHOOSE k \in starts : \A j \in starts : j <= k
    IN  IF starts = {} THEN <<>>
        ELSE SubSeq(processingLog, last + 1, Len(processingLog))

\* C7: when extraction or analysis of an included item raises, a log entry for
\* it is appended, every remaining included item of the folder is still
\* processed, and the folder still goes on to reordering and assembly: the
\* run does not stop before the folder's assembly.
C7_ItemFailureIsolated ==
    /\ pc \in {"items", "reorder", "summary", "docx", "aborted"}
         => Cardinality(failedItems)
              = Cardinality({k \in 1..Len(folderLog) : folderLog[k] = "itemError"})
    /\ pc \in {"reorder", "summary", "docx", "aborted"}
         => Len(run.itemResults) = Len(run.filesToProcess)
    /\ pc = "aborted" => failedItems = {}

\* How many entries of the log are `entry`.
logged(log, entry) == Cardinality({k \in 1..Len(log) : log[k] = entry})

\* C12: PHASE 4 leaves the folder completed exactly when createDocx returned
\* an artifact in this run, which is then stored on the folder and published;
\* when it fails the folder is in error and keeps what it held before; one
\* artifact (one "success" entry, one download) per completed folder.
C12_StepDOutcome ==
    [][(pc = "docx" /\ pc' # "docx") =>
         LET o == run.updatedFolders[run.i + 1]
             stored == heap'[o].resultDocBlob = budget.runs
             made == logged(processingLog', "success") - logged(processingLog, "success")
         IN  /\ heap[o].resultDocBlob # budget.runs
             /\ heap'[o].status \in {"completed", "error"}
             /\ heap'[o].status = "completed" <=> stored
             /\ heap'[o].status = "error" => heap'[o].resultDocBlob = heap[o].resultDocBlob
             /\ made = IF stored THEN 1 ELSE 0
             /\ o \in Range(folders')]_vars

\* One folder completed with its artifact next to one in error without any.
C12_Witness ==
    \E o1, o2 \in Range(folders) :
        /\ heap[o1].status = "completed" /\ heap[o1].resultDocBlob = budget.runs
        /\ heap[o2].status = "error" /\ heap[o2].resultDocBlob = 0

\* The log entries of the run in work: those after the last "start".
runLog ==
    LET starts == {k \in 1..Len(processingLog) : processingLog[k] = "start"}
        last == CHOOSE k \in starts : \A j \in starts : j <= k
    IN  IF starts = {} THEN <<>>
        ELSE SubSeq(processingLog, last + 1, Len(processingLog))

\* A folder of the run in work has ended in error.
errorInRun == pc # "idle" /\ logged(runLog, "docxError") > 0

\* C13: the loop takes the folders in input order, one index at a time; it
\* passes a folder only when that folder has no included item or has reached
\* completed or error, sets `processing` only on the folder at its index,
\* and ends only after the last folder; once a folder of the run has ended in
\* error the run neither ends early nor dies, so every later folder with
\* included items is taken to processing and on to completed or error.
C13_FoldersInOrder ==
    [][/\ (pc # "idle" /\ run'.i # run.i) =>
            \/ pc' = "idle" /\ run.i >= Len(run.updatedFolders)
            \/ /\ run'.i = run.i + 1
               /\ run'.updatedFolders = run.updatedFolders
               /\ LET o == run.updatedFolders[run.i + 1]
                  IN  \/ heap'[o].status \in {"completed", "error"}
                      \/ \A k \in 1..Len(heap[o].files) : ~heap[o].files[k].selected
       /\ (pc # "idle" /\ pc' = "idle") => run.i >= Len(run.updatedFolders)
       /\ \A o \in 1..Len(heap) :
            (heap[o].status # "processing" /\ heap'[o].status = "processing")
                => run.i < Len(run.updatedFolders) /\ o = run.updatedFolders[run.i + 1]
       /\ errorInRun => pc' # "aborted"]_vars

\* The first folder of the run ended in error and the second, taken up after
\* it, is completed.
C13_Witness ==
    /\ pc = "loop"
    /\ run.i = 2
    /\ errorInRun
    /\ heap[run.updatedFolders[1]].status = "error"
    /\ heap[run.updatedFolders[2]].status = "completed"

\* The places of `array` whose folder is in processing.
inProcessing(array) == {k \in 1..Len(array) : heap[array[k]].status = "processing"}

\* C14: at most one folder is in processing, in the published state and among
\* the folders of the run, and it is the folder at the loop's index; while a
\* run is active isProcessing is set, which disables the start button, so no
\* click starts a second run.
C14_SingleWorker ==
    /\ Cardinality(inProcessing(folders)) <= 1
    /\ Cardinality(inProcessing(run.updatedFolders)) <= 1
    /\ inProcessing(run.updatedFolders) \subseteq {run.i + 1}
    /\ pc # "idle" => isProcessing
    /\ pc # "idle" => ~ENABLED processFolders

\* A folder in work while the user has replaced the published array.
C14_Witness ==
    /\ pc = "items"
    /\ Len(run.updatedFolders) = 2
    /\ folders # run.updatedFolders
    /\ Cardinality(inProcessing(folders)) = 1
    /\ budget.edits > 0

\* C15: when the API key is missing no folder reaches completed and no
\* artifact is produced, with the summary phase enabled or disabled.
C15_MissingKeyIsFatal ==
    ~apiKey => \A o \in 1..Len(heap) :
                  heap[o].status # "completed" /\ heap[o].resultDocBlob = 0

\* The entries that report a failure: the addLog calls of the catch blocks.
failureReports(log) == logged(log, "itemError") + logged(log, "docxError")

\* The pages this step pushed stem from a PDF of which an earlier page failed
\* to render: the page's place among the rendered ones is not its number.
renderFailedNow ==
    \E k \in (Len(run.docxPagesBuffer) + 1)..Len(run'.docxPagesBuffer) :
        LET p == run'.docxPagesBuffer[k]
        IN  p.label > 0 /\ p.sourcePage # p.label

\* generateSummary returned the text of its catch in this step.
summaryFailedNow == run.summaryText # "errorMessage" /\ run'.summaryText = "errorMessage"

\* C16: the log only grows at its end, and a step in which a PDF page fails to
\* render or the summarization fails appends an entry that reports it.
C16_FailuresLogged ==
    [][/\ Len(processingLog) <= Len(processingLog')
       /\ SubSeq(processingLog', 1, Len(processingLog)) = processingLog
       /\ (renderFailedNow \/ summaryFailedNow)
            => failureReports(processingLog') > failureReports(processingLog)]_vars

\* The FileItems of the published folders, as (folder place, file place).
publishedItems ==
    {<<k, j>> \in (1..Len(folders)) \X (1..MaxFiles) : j <= Len(heap[folders[k]].files)}

itemAt(at) == heap[folders[at[1]]].files[at[2]]

\* C17: no two FileItems of the published folders have the same id: files of
\* one pick that share folder name, file name and size make one entry.
C17_UniqueIds ==
    \A a, b \in publishedItems : itemAt(a).id = itemAt(b).id => a = b

\* The steps of a run of processFolders after the click.
runStep == folderLoop \/ processItem \/ reorderPhase \/ summaryPhase \/ docxPhase

\* C24: every run ends cleanly. While isProcessing is set the run has a next
\* step to take, whatever its calls returned or raised, so it goes on to the
\* end of the loop, where the flag is cleared; and whenever the flag is clear
\* no published folder is left in `processing`.
C24_RunTerminates ==
    /\ isProcessing => ENABLED runStep
    /\ ~isProcessing => \A k \in 1..Len(folders) : heap[folders[k]].status # "processing"

\* A step of the pipeline: neither an edit of the user nor a directory pick.
pipelineStep == budget'.edits = budget.edits /\ budget'.ingests = budget.ingests

\* C25: no step of the pipeline, its republishing of the folders included,
\* changes the rotation or the inclusion flag of a published SourceItem: what
\* the user set during a run is still there after the next setFolders of the
\* run and after its end.
C25_NoLostUpdate ==
    [][pipelineStep =>
         /\ Len(folders') = Len(folders)
         /\ \A k \in 1..Len(folders) :
               LET before == heap[folders[k]].files
                   after == heap'[folders'[k]].files
               IN  /\ Len(after) = Len(before)
                   /\ \A j \in 1..Len(before) :
                         /\ after[j].rotation = before[j].rotation
                         /\ after[j].selected = before[j].selected]_vars

\* The pages of the folder in work that came from a PDF.
pdfPages ==
    {p \in Range(run.docxPagesBuffer) \cup Range(run.orderedPages) : p.label # 0}

\* C26: the n of the display name "<file> [Page n]" of a page derived from a
\* PDF is the number of that page in the PDF, also when an earlier page of
\* the PDF failed to render and was skipped.
C26_PageLabelIsSourcePage ==
    \A p \in pdfPages : p.label = p.sourcePage

----------------------------------------------------------------------------
(* Properties of reorderPagesByContent, checked under SpecReorder *)

rN == Len(rPages)

\* The detected page number of the page at position k of the output.
outNum(k) == rPages[rOut[k] + 1]

\* h is a bijection over [0, n).
isBijection(n, h) == Len(h) = n /\ Range(h) = 0..(n - 1)

\* The output holds every input page exactly once.
outIsPermutation == Len(rOut) = rN /\ Range(rOut) = 0..(rN - 1)

\* C2: for n >= 2 pages, a returned array that is not a bijection over [0, n)
\* (wrong length, out-of-range value, duplicate) is discarded and the output is
\* the fallback order, pages sorted by detected page number.
C2_InvalidHintDiscarded ==
    (rPc = "done" /\ rN >= 2 /\ rResp.kind = "array" /\ ~isBijection(rN, rResp.ids))
        => rOut = fallbackSort(rPages)

\* C3: when the ranking call raises, the output is the input pages in ascending
\* order of detected page number, pages of equal number in their original
\* relative order; detected numbers [3,1,2] give indices [1,2,0].
C3_FallbackSortedStable ==
    (rPc = "done" /\ rN >= 2 /\ rResp.kind = "raise")
        => /\ outIsPermutation
           /\ \A i, j \in 1..Len(rOut) :
                (i < j /\ outNum(i) # Absent /\ outNum(j) # Absent)
                    => \/ outNum(i) < outNum(j)
                       \/ (outNum(i) = outNum(j) /\ rOut[i] < rOut[j])
           /\ (rPages = <<3, 1, 2>> => rOut = <<1, 2, 0>>)

C3_Witness ==
    /\ rPc = "done" /\ rResp.kind = "raise"
    /\ rPages = <<3, 1, 2>> /\ rOut = <<1, 2, 0>>

\* C4: in the fallback order every page without a detected number comes after
\* every page with one, and the pages without a number keep their relative order.
C4_UnnumberedLast ==
    (rPc = "done" /\ rPath = "catch")
        => \A i, j \in 1..Len(rOut) :
             /\ (outNum(i) # Absent /\ outNum(j) = Absent) => i < j
             /\ (i < j /\ outNum(i) = Absent /\ outNum(j) = Absent) => rOut[i] < rOut[j]

\* C5: on an empty or malformed response (no text, unparseable JSON, JSON that
\* is not an array of integers) the call returns, and returns the fallback order.
C5_MalformedGivesFallback ==
    (rPc = "done" /\ rN >= 2 /\ rResp.kind \in {"empty", "badjson", "nonarray", "nonints"})
        => rOut = fallbackSort(rPages)

\* C6: for n >= 2 pages and a valid permutation h of [0, n), the output has
\* length n and its i-th page is input page h[i].
C6_ValidHintApplied ==
    (rPc = "done" /\ rN >= 2 /\ rResp.kind = "array" /\ isBijection(rN, rResp.ids))
        => /\ Len(rOut) = rN
           /\ \A i \in 1..rN : rOut[i] = rResp.ids[i]

C6_Witness ==
    /\ rPc = "done" /\ rResp.kind = "array"
    /\ rN = 3 /\ rResp.ids = <<2, 0, 1>> /\ rOut = <<2, 0, 1>>

\* How many times input page p stands in the output.
timesInOutput(p) == Cardinality({k \in 1..Len(rOut) : rOut[k] = p})

\* C23: whatever the ranking collaborator answers (a valid hint, a hint with
\* duplicates, with missing or out-of-range indices, nothing, an error), the
\* output of reorderPagesByContent has the length of its input and holds
\* every input page exactly once.
C23_OutputIsPermutation ==
    rPc = "done" =>
        /\ Len(rOut) = rN
        /\ \A p \in 0..(rN - 1) : timesInOutput(p) = 1

----------------------------------------------------------------------------
(* Properties of cropImageFromBlob, checked under SpecCrop *)

\* The whole source image as a rectangle.
wholeImage == [x |-> 0, y |-> 0, w |-> cImg.width * Milli, h |-> cImg.height * Milli]

\* ymin < ymax and xmin < xmax
wellOrdered(box) == box[1] < box[3] /\ box[2] < box[4]

\* C8: for every box that violates ymin<ymax or xmin<xmax, on every image size,
\* the crop is the entire source image.
C8_DegenerateBoxCropsWhole ==
    (cPc = "done" /\ Len(cBox) >= 4 /\ cRes.state = "resolved" /\ ~wellOrdered(cBox))
        => cRes.rect = wholeImage

\* C9: for a well-ordered box the crop rectangle is the box's pixel rectangle
\* expanded by exactly 5 pixels on each side and clamped to the image: from
\* max(0, pixelX-5) to min(W, pixelX+pixelW+5), vertically likewise; it never
\* leaves the image and box [0,0,1000,1000] gives the whole image.
C9_PaddedRectClamped ==
    (cPc = "done" /\ Len(cBox) >= 4 /\ cEnv = "ok" /\ wellOrdered(cBox))
        => /\ cRes.rect.x = Max(0, pixelStart(cBox[2], cImg.width) - padding * Milli)
           /\ cRes.rect.x + cRes.rect.w =
                 Min(cImg.width * Milli,
                     pixelStart(cBox[2], cImg.width)
                       + pixelSize(cBox[2], cBox[4], cImg.width) + padding * Milli)
           /\ cRes.rect.y = Max(0, pixelStart(cBox[1], cImg.height) - padding * Milli)
           /\ cRes.rect.y + cRes.rect.h =
                 Min(cImg.height * Milli,
                     pixelStart(cBox[1], cImg.height)
                       + pixelSize(cBox[1], cBox[3], cImg.height) + padding * Milli)
           /\ (SubSeq(cBox, 1, 4) = <<0, 0, 1000, 1000>> => cRes.rect = wholeImage)

\* C10: every blob the call returns is a PNG, whatever the source format and
\* whatever the box array, one with fewer than 4 entries included.
C10_OutputAlwaysPng ==
    (cPc = "done" /\ cRes.state = "resolved") => cRes.type = "image/png"

----------------------------------------------------------------------------
(* Properties of createDocx and of PHASES 2-4, checked under SpecAssembly *)

\* The elements createDocx made for block bIdx of page i.
elementsOf(i, bIdx) ==
    SelectSeq(assembly.docChildren, LAMBDA e : e.page = i /\ e.block = bIdx)

\* The positions (i, bIdx) of the blocks of orderedPages.
allBlocks ==
    {pos \in (0..(Len(assembly.orderedPages) - 1)) \X (0..(MaxDocBlocks - 1)) :
        pos[2] < Len(assembly.orderedPages[pos[1] + 1].blocks)}

blockAt(pos) == assembly.orderedPages[pos[1] + 1].blocks[pos[2] + 1]

\* docChildren lists its elements by page and, within a page, by block.
inPosition ==
    \A k \in 1..(Len(assembly.docChildren) - 1) :
        LET e == assembly.docChildren[k]
            f == assembly.docChildren[k + 1]
        IN  e.page < f.page \/ (e.page = f.page /\ e.block <= f.block)

\* C11: a crop that fails for a crop-eligible block leaves exactly one error
\* placeholder for that block, in the block's position; createDocx goes on
\* with the remaining blocks and pages and ends only at the serializer, so the
\* failure alone never puts the folder in error.
C11_CropFailureContained ==
    /\ \A pos \in assembly.cropFailed :
          LET made == elementsOf(pos[1], pos[2])
          IN  /\ Len(made) = 1
              /\ made[1].kind = "error"
              /\ blockAt(pos).text \in Range(made[1].text)
    /\ inPosition
    /\ assembly.pc = "done" => \A pos \in allBlocks : elementsOf(pos[1], pos[2]) # <<>>
    /\ assembly.pc = "done" =>
          \/ assembly.status = "completed" /\ assembly.resultDocBlob
          \/ assembly.status = "error" /\ ~assembly.resultDocBlob

\* A failed crop followed by a block of the same page and by a block of the
\* next page, in a document that was serialized.
C11_Witness ==
    /\ assembly.pc = "done"
    /\ assembly.status = "completed"
    /\ assembly.resultDocBlob
    /\ \E pos \in assembly.cropFailed :
          /\ elementsOf(pos[1], pos[2] + 1) # <<>>
          /\ elementsOf(pos[1] + 1, 0) # <<>>

\* The blocks of the pages, page after page.
RECURSIVE blocksOf(_)
blocksOf(pages) ==
    IF pages = <<>> THEN <<>> ELSE Head(pages).blocks \o blocksOf(Tail(pages))

\* The pieces of a text that are not separators of join.
words(text) == SelectSeq(text, LAMBDA w : w \notin {" ", "\n\n"})

\* The types whose text goes into the summary: all but image_crop and table_crop.
SummaryTypes == BlockTypes \ {"image_crop", "table_crop"}

bodyElements == SelectSeq(assembly.docChildren, LAMBDA e : e.block >= 0)

\* The scenario: a.jpg and b.jpg with one narrative block each, the summary
\* disabled, and the ranking hint [1, 0] applied.
twoImagesSwapped ==
    /\ Len(assembly.docxPagesBuffer) = 2
    /\ \A k \in 1..2 :
          /\ Len(assembly.docxPagesBuffer[k].blocks) = 1
          /\ assembly.docxPagesBuffer[k].blocks[1].type \notin CropTypes
    /\ ~assembly.generateSummary
    /\ assembly.orderedPages = pagesInOrder(assembly.docxPagesBuffer, <<1, 0>>)

\* C19: docChildren lists the elements by the order of orderedPages and, in a
\* page, by block; when createDocx reaches the serializer every block has at
\* least one element, and the body holds nothing else. In the scenario the
\* element with b.jpg's text precedes the one with a.jpg's, and the folder,
\* once the serializer has answered with the artifact, is completed with it.
C19_AssemblyFollowsOrder ==
    /\ inPosition
    /\ \A k \in 1..Len(bodyElements) : <<bodyElements[k].page, bodyElements[k].block>> \in allBlocks
    /\ assembly.pc \in {"pack", "done"} =>
          \A pos \in allBlocks : elementsOf(pos[1], pos[2]) # <<>>
    /\ (twoImagesSwapped /\ assembly.pc \in {"pack", "done"}) =>
          /\ Len(assembly.docChildren) = 2
          /\ assembly.orderedPages[assembly.docChildren[1].page + 1].originalFileName = "b.jpg"
          /\ assembly.docChildren[1].text = <<assembly.docxPagesBuffer[2].blocks[1].text>>
          /\ assembly.orderedPages[assembly.docChildren[2].page + 1].originalFileName = "a.jpg"
          /\ assembly.docChildren[2].text = <<assembly.docxPagesBuffer[1].blocks[1].text>>
    /\ (twoImagesSwapped /\ assembly.pc = "done" /\ assembly.status # "error") =>
          assembly.status = "completed" /\ assembly.resultDocBlob

\* The scenario at its end: b.jpg's heading before a.jpg's paragraph, the
\* folder completed with its artifact.
C19_Witness ==
    /\ twoImagesSwapped
    /\ assembly.pc = "done"
    /\ assembly.status = "completed"
    /\ assembly.resultDocBlob
    /\ assembly.docxPagesBuffer[1].blocks[1].type = "paragraph"
    /\ assembly.docxPagesBuffer[2].blocks[1].type = "heading"
    /\ assembly.docChildren[1].kind = "heading"
    /\ assembly.docChildren[2].kind = "paragraph"

\* The elements of docChildren made for no block: the summary section.
summaryElements == SelectSeq(assembly.docChildren, LAMBDA e : e.block < 0)

\* C21: once createDocx has started, the summary section (heading, paragraph,
\* separator) leads docChildren exactly when a summary was produced: there is
\* none when the summary is disabled, none when the summarization collaborator
\* failed or returned nothing, and otherwise the three elements come first
\* and the paragraph holds the collaborator's normalized text.
C21_SummarySectionWhenProduced ==
    assembly.pc \in {"blocks", "pack", "done"} =>
        /\ ~assembly.generateSummary => summaryElements = <<>>
        /\ assembly.summaryResponse \in {"marks", "notext", "raise"} =>
              summaryElements = <<>>
        /\ assembly.summaryResponse = "text" =>
              /\ Len(summaryElements) = 3
              /\ SubSeq(assembly.docChildren, 1, 3) = summaryElements
              /\ [k \in 1..3 |-> summaryElements[k].kind]
                    = <<"summaryHeading", "summaryText", "separator">>
              /\ summaryElements[2].text = <<generateSummary("text")>>

\* The blocks the loops of createDocx have passed.
passed ==
    {pos \in allBlocks :
        \/ assembly.pc \in {"pack", "done"}
        \/ assembly.pc = "blocks" /\ pos[1] < assembly.i
        \/ assembly.pc = "blocks" /\ pos[1] = assembly.i /\ pos[2] < assembly.bIdx}

\* The blocks whose crop was made and did not fail.
cropped ==
    {pos \in passed \ assembly.cropFailed :
        cropEligible(blockAt(pos), assembly.orderedPages[pos[1] + 1])}

\* The caption the rule gives a block: table, formula, figure by default.
expectedCaption(block) ==
    IF block.text = "null"
    THEN [table_crop |-> "Tablitsa", formula_crop |-> "Formula",
          image_crop |-> "Risunok"][block.type]
    ELSE block.text

\* C22: a successful crop of a block of type table_crop, formula_crop or
\* image_crop with a bounding box, on a page with raster bytes, gives exactly
\* two consecutive elements, the image and then the caption, and no text
\* element; the caption is the block's text, or the default of the block's
\* type when that text is the string "null".
C22_CropGivesImageAndCaption ==
    \A pos \in cropped :
        /\ Len(elementsOf(pos[1], pos[2])) = 2
        /\ \E k \in 1..(Len(assembly.docChildren) - 1) :
              /\ assembly.docChildren[k] = element("image", <<>>, pos[1], pos[2])
              /\ assembly.docChildren[k + 1]
                    = element("caption", <<"[", expectedCaption(blockAt(pos)), "]">>,
                              pos[1], pos[2])

\* A document with a cropped formula whose text is "null", a cropped table
\* with a text of its own, and a paragraph.
C22_Witness ==
    /\ assembly.pc = "done"
    /\ assembly.status = "completed"
    /\ \E pos \in cropped :
          blockAt(pos).type = "formula_crop" /\ blockAt(pos).text = "null"
    /\ \E pos \in cropped :
          blockAt(pos).type = "table_crop" /\ blockAt(pos).text = "txt"
    /\ \E pos \in allBlocks : blockAt(pos).type = "paragraph"

----------------------------------------------------------------------------
(* Properties of analyzePage, checked under SpecAnalyzer *)

\* The layout collaborator failed or gave nothing usable, and analyzePage ran.
analysisFailed ==
    apiKey /\ analyzer.response.kind \in AnalyzeFailures /\ analyzer.pc # "call"

\* C20: when the call of the layout collaborator fails or its answer is not
\* usable, analyzePage does not raise: it returns exactly one paragraph block
\* that carries the error marker with the file's name, and no page number;
\* the caller then pushes the page with that analysis into docxPagesBuffer.
C20_AnalysisFailureDegrades ==
    analysisFailed =>
        /\ analyzer.pc \in {"returned", "pushed"}
        /\ Len(analyzer.result.blocks) = 1
        /\ analyzer.result.blocks[1].type = "paragraph"
        /\ analyzer.result.blocks[1].text
              = <<"[Oshibka obrabotki stranitsy: ", analyzer.file, "]">>
        /\ analyzer.result.pageNumber = Absent
        /\ analyzer.pc = "returned" => analyzer.docxPagesBuffer = <<>>
        /\ analyzer.pc = "pushed" =>
              analyzer.docxPagesBuffer
                 = << [originalFileName |-> analyzer.file, analysis |-> analyzer.result] >>

\* The page of a file whose answer was no JSON, pushed with the placeholder.
C20_Witness ==
    /\ analyzer.response.kind = "badjson"
    /\ analyzer.pc = "pushed"
    /\ Len(analyzer.docxPagesBuffer) = 1
    /\ analyzer.docxPagesBuffer[1].analysis.blocks[1].type = "paragraph"
    /\ analyzer.docxPagesBuffer[1].analysis.pageNumber = Absent

====
